---- MODULE Spec2Model ----
(***************************************************************************)
(* Model of the two-player dice game of src/main.py: the GameState object  *)
(* (rounds, turn, players), its scoring pipeline (_check_double,           *)
(* _check_even, _check_odd) and the session script under __main__ that     *)
(* drives the round loop, the draw rolls and the choice of the winner.     *)
(***************************************************************************)
EXTENDS Integers, Sequences, FiniteSets, TLC

(* random.randint(1, 7) of _roll_dice: both ends are inclusive *)
DieMin == 1
DieMax == 7

(* `while game_state.rounds <= 5` *)
LastRound == 5

(* Bound of the model: play_draw is followed for at most MaxEqualDraws
   iterations whose two rolls are equal, and one iteration more.  The loop of
   the program has no such limit. *)
MaxEqualDraws == 2

VARIABLES
    rounds,        \* GameState.rounds
    turn,          \* GameState.turn, the index (0 or 1) of the current player
    players,       \* GameState.players: <<player one, player two>>
    pc,            \* position of the session script of __main__
    winner,        \* index (0 or 1) of the player chosen as winner, -1 before
    calls,         \* number of play_round() calls made so far
    drawIters,     \* number of iterations of the loop of play_draw so far
    rolled,        \* the values _roll_dice returned in the last operation
    double_score,  \* local of the last _calculate_scores call
    even_score,    \* local of the last _calculate_scores call
    odd_score,     \* local of the last _calculate_scores call (its result)
    credited,      \* index of the player the last play_round() paid, -1 before
    users,         \* table users: row i (its rowid) is [username, password]
    scores,        \* table scores: rows [player_id, score], committed
    shown,         \* username_scores as display_top_scores prints it
    signups,       \* number of create_user() calls so far
    attempts,      \* number of iterations of the loop of authenticate so far
    queries,       \* number of times authenticate has read the users table
    prompts,       \* number of times authenticate has asked for a password
    entered,       \* what was typed in the last iteration of authenticate
    outcome,       \* the last message of create_user or authenticate
    conn,          \* SQLManager.conn: "none", "open" or "closed"
    pending,       \* rows inserted on conn in its with block
    exc,           \* the exception leaving the with block, as __exit__ gets it
    committed,     \* whether the last __exit__ called conn.commit()
    saving,        \* the player of the save_score call in progress
    ops            \* number of with blocks entered so far

vars == <<rounds, turn, players, pc, winner, calls, drawIters, rolled,
          double_score, even_score, odd_score, credited,
          users, scores, shown,
          signups, attempts, queries, prompts, entered, outcome,
          conn, pending, exc, committed, saving, ops>>

(* a SQLManager and the block it manages, when followed statement by
   statement; elsewhere a with block is one step *)
dbVars == <<conn, pending, exc, committed, saving, ops>>

(* the signup and login sections of the script *)
loginVars == <<signups, attempts, queries, prompts, entered, outcome>>

(* the tables of dicegame.db and what was printed from them *)
storeVars == <<users, scores, shown>>

---------------------------------------------------------------------------
(* Player.__init__ *)
Player(username) == [username |-> username, score |-> 0]

(* hashlib.sha256(password.encode()).digest(): one digest per password, and
   no two of the passwords of the model share a digest *)
Passwords == {"pw1", "pw2"}
Sha256 == "pw1" :> "digest1" @@ "pw2" :> "digest2"

(* the arguments of __exit__ when the block ends without an exception *)
NoException == [type |-> "None", value |-> "None", traceback |-> "None"]

(* the arguments of __exit__ when the exception named leaves the block *)
Raised(name) == [type |-> name, value |-> name, traceback |-> "traceback"]

(* truth value of an argument of __exit__: None is false, an exception
   class, an exception or a traceback is true *)
Truthy(x) == x # "None"

(* __exit__ that commits whatever its arguments are *)
CommitsOnExit_always(e) == TRUE

(* `if not (type or value or traceback)` of SQLManager.__exit__ *)
CommitsOnExit(e) ==
    ~(Truthy(e.type) \/ Truthy(e.value) \/ Truthy(e.traceback))

(* SQLManager.__exit__ on a table: conn.commit() adds the rows written in
   the block when CommitsOnExit; conn.close() drops them otherwise *)
TableAfterExit(table, written, e) ==
    IF CommitsOnExit(e) THEN table \o written ELSE table

(* The values _roll_dice can return *)
_roll_dice == DieMin..DieMax

(* _check_double that leaves the extra roll out of the sum *)
_check_double_noextra(roll1, roll2, extra_score) == roll1 + roll2

(* _check_double; extra_score is the value of the extra _roll_dice call,
   which is made only when the rolls are equal *)
_check_double(roll1, roll2, extra_score) ==
    IF roll1 = roll2 THEN roll1 + roll2 + extra_score ELSE roll1 + roll2

(* _check_even that adds 5 instead of 10 *)
_check_even_add5(score) ==
    IF score % 2 # 0 THEN score ELSE score + 5

(* _check_even: `if score % 2: return score`, else score + 10 *)
_check_even(score) ==
    IF score % 2 # 0 THEN score ELSE score + 10

(* _check_odd with its test inverted: 5 is taken off the even scores *)
_check_odd_inverted(score) ==
    IF score % 2 = 0
    THEN IF score - 5 < 0 THEN 0 ELSE score - 5
    ELSE score

(* _check_odd without the floor at 0 *)
_check_odd_nofloor(score) ==
    IF score % 2 # 0 THEN score - 5 ELSE score

(* _check_odd: on an odd score subtract 5, and return 0 when below 0 *)
_check_odd(score) ==
    IF score % 2 # 0
    THEN IF score - 5 < 0 THEN 0 ELSE score - 5
    ELSE score

(* _calculate_scores: the three stages in order *)
_calculate_scores(roll1, roll2, extra_score) ==
    _check_odd(_check_even(_check_double(roll1, roll2, extra_score)))

(* is_draw that also holds when player one is ahead *)
is_draw_ge == players[1].score >= players[2].score

(* GameState.is_draw *)
is_draw == players[1].score = players[2].score

(* the amount goes to the other player *)
AddScore_other(ps, i, amount) ==
    [ps EXCEPT ![2 - i].score = @ + amount]

(* `player.score += amount` for the player of index i (0 or 1) *)
AddScore(ps, i, amount) ==
    [ps EXCEPT ![i + 1].score = @ + amount]

(* The values _roll_dice returned during one play_round call, in order: the
   two rolls of play_round and, when they are equal, the roll of
   _check_double *)
DiceRolled(dice_val1, dice_val2, extra_score) ==
    IF dice_val1 = dice_val2
    THEN <<dice_val1, dice_val2, extra_score>>
    ELSE <<dice_val1, dice_val2>>

(* the turn swap of play_round *)
NextTurn(t) == IF t = 0 THEN 1 ELSE 0

(* rounds incremented on every call, outside the else branch *)
NextRounds_always(r, t) == r + 1

(* `self.rounds += 1` in the else branch of the turn swap *)
NextRounds(r, t) == IF t = 0 THEN r ELSE r + 1

---------------------------------------------------------------------------
(* The session starts when both players are logged in:
   GameState([player_one, player_two]).  Here users "one" and "two" signed
   up and then logged in, each at the first attempt. *)
Init ==
    /\ rounds = 1
    /\ turn = 0
    /\ players = <<Player("one"), Player("two")>>
    /\ pc = "round_loop"
    /\ winner = -1
    /\ calls = 0
    /\ drawIters = 0
    /\ rolled = <<>>
    /\ double_score = 0
    /\ even_score = 0
    /\ odd_score = 0
    /\ credited = -1
    /\ users = <<[username |-> "one", password |-> Sha256["pw1"]],
                 [username |-> "two", password |-> Sha256["pw2"]]>>
    /\ scores = <<>>
    /\ shown = <<>>
    /\ signups = 2
    /\ attempts = 2
    /\ queries = 2
    /\ prompts = 2
    /\ entered = [username |-> "two", password |-> "pw2"]
    /\ outcome = "Success"
    /\ conn = "none"
    /\ pending = <<>>
    /\ exc = NoException
    /\ committed = FALSE
    /\ saving = [username |-> "", score |-> 0]
    /\ ops = 0

(* The state change of play_round for the dice values dice_val1, dice_val2
   and, on a double, the extra roll of _check_double *)
play_round(dice_val1, dice_val2, extra_score) ==
    /\ credited' = turn
    /\ players' = AddScore(players, turn,
                           _calculate_scores(dice_val1, dice_val2, extra_score))
    /\ turn' = NextTurn(turn)
    /\ rounds' = NextRounds(rounds, turn)
    /\ calls' = calls + 1

(* play_round with a record of the call: the values _roll_dice returned and
   the locals of _calculate_scores *)
TracedRound(dice_val1, dice_val2, extra_score) ==
    /\ play_round(dice_val1, dice_val2, extra_score)
    /\ rolled' = DiceRolled(dice_val1, dice_val2, extra_score)
    /\ double_score' = _check_double(dice_val1, dice_val2, extra_score)
    /\ even_score' = _check_even(double_score')
    /\ odd_score' = _check_odd(even_score')

(* the loop condition with < for <= *)
InProgress_early == rounds < LastRound

(* the loop condition off by one *)
InProgress_late == rounds <= LastRound + 1

(* `while game_state.rounds <= 5` *)
InProgress == rounds <= LastRound

(* `if game_state.is_draw(): game_state.play_draw()`, then the end summary *)
AfterRounds == IF is_draw THEN "play_draw" ELSE "get_winner"

(* the comparison of "Get the winner" reversed *)
Winner_less(ps) == IF ps[1].score < ps[2].score THEN 0 ELSE 1

(* "Get the winner": the index of the player the script picks *)
Winner(ps) == IF ps[1].score > ps[2].score THEN 0 ELSE 1

(* One iteration of the main game loop: game_state.play_round().  The
   session keeps no record of the dice of its rounds. *)
PlayRound ==
    /\ pc = "round_loop"
    /\ InProgress
    /\ \E dice_val1 \in _roll_dice, dice_val2 \in _roll_dice :
          IF dice_val1 = dice_val2
          THEN \E extra_score \in _roll_dice :
                  play_round(dice_val1, dice_val2, extra_score)
          ELSE play_round(dice_val1, dice_val2, 0)
    /\ UNCHANGED <<pc, winner, drawIters, rolled,
                   double_score, even_score, odd_score>>
    /\ UNCHANGED storeVars
    /\ UNCHANGED loginVars
    /\ UNCHANGED dbVars

(* The main game loop ends; `if game_state.is_draw(): play_draw()` *)
ExitRounds ==
    /\ pc = "round_loop"
    /\ ~InProgress
    /\ pc' = AfterRounds
    /\ UNCHANGED <<rounds, turn, players, winner, calls, drawIters, rolled,
                   double_score, even_score, odd_score, credited>>
    /\ UNCHANGED storeVars
    /\ UNCHANGED loginVars
    /\ UNCHANGED dbVars

(* player one's roll added to both players *)
DrawScores_same(ps, player1_roll, player2_roll) ==
    AddScore(AddScore(ps, 0, player1_roll), 1, player1_roll)

(* each player is given the other player's roll *)
DrawScores_swapped(ps, player1_roll, player2_roll) ==
    AddScore(AddScore(ps, 0, player2_roll), 1, player1_roll)

(* the two `score +=` of an iteration of play_draw *)
DrawScores(ps, player1_roll, player2_roll) ==
    AddScore(AddScore(ps, 0, player1_roll), 1, player2_roll)

(* One iteration of the loop of play_draw with the given rolls *)
DrawWith(player1_roll, player2_roll) ==
    /\ pc = "play_draw"
    /\ is_draw
    /\ rolled' = <<player1_roll, player2_roll>>
    /\ players' = DrawScores(players, player1_roll, player2_roll)
    /\ drawIters' = drawIters + 1
    /\ UNCHANGED <<rounds, turn, pc, winner, calls,
                   double_score, even_score, odd_score, credited>>
    /\ UNCHANGED storeVars
    /\ UNCHANGED loginVars
    /\ UNCHANGED dbVars

(* An iteration of play_draw in which both players roll the same value *)
DrawEqual ==
    /\ drawIters < MaxEqualDraws
    /\ \E r \in _roll_dice : DrawWith(r, r)

(* An iteration of play_draw in which the players roll different values *)
DrawDiffer ==
    /\ drawIters <= MaxEqualDraws
    /\ \E player1_roll \in _roll_dice, player2_roll \in _roll_dice :
          /\ player1_roll # player2_roll
          /\ DrawWith(player1_roll, player2_roll)

(* `while self.is_draw()` is false: play_draw returns *)
DrawExit ==
    /\ pc = "play_draw"
    /\ ~is_draw
    /\ pc' = "get_winner"
    /\ UNCHANGED <<rounds, turn, players, winner, calls, drawIters, rolled,
                   double_score, even_score, odd_score, credited>>
    /\ UNCHANGED storeVars
    /\ UNCHANGED loginVars
    /\ UNCHANGED dbVars

(* "Get the winner" *)
GetWinner ==
    /\ pc = "get_winner"
    /\ winner' = Winner(players)
    /\ pc' = "finished"
    /\ UNCHANGED <<rounds, turn, players, calls, drawIters, rolled,
                   double_score, even_score, odd_score, credited>>
    /\ UNCHANGED storeVars
    /\ UNCHANGED loginVars
    /\ UNCHANGED dbVars

(* the rowids of the users rows with the given username ("SELECT rowid FROM
   users WHERE username=?"); username is UNIQUE *)
UserRowids(us, username) ==
    {i \in 1..Len(us) : us[i].username = username}

(* the winner's score is stored for the loser's user record *)
save_score_other(us, sc, player) ==
    LET ids == {i \in 1..Len(us) : us[i].username # player.username}
    IN  Append(sc, [player_id |-> CHOOSE i \in ids : TRUE,
                    score |-> player.score])

(* save_score: the scores table after the call.  fetchall()[0][0] raises
   IndexError when no user has the username; then the block is left by the
   exception and nothing is inserted. *)
save_score(us, sc, player) ==
    LET ids == UserRowids(us, player.username)
    IN  IF ids = {}
        THEN TableAfterExit(sc, <<>>, Raised("IndexError"))
        ELSE TableAfterExit(sc,
                            <<[player_id |-> CHOOSE i \in ids :
                                                \A j \in ids : i <= j,
                               score |-> player.score]>>,
                            NoException)

(* `save_score(winner)` *)
SaveScore ==
    /\ pc = "finished"
    /\ scores' = save_score(users, scores, players[winner + 1])
    /\ pc' = IF UserRowids(users, players[winner + 1].username) = {}
             THEN "crashed" ELSE "saved"
    /\ UNCHANGED <<rounds, turn, players, winner, calls, drawIters, rolled,
                   double_score, even_score, odd_score, credited,
                   users, shown>>
    /\ UNCHANGED loginVars
    /\ UNCHANGED dbVars

(* "SELECT * FROM scores ORDER BY score": the orders in which the rows with
   the indices of S can come, lowest score first; SQL leaves the order of
   rows with equal scores open *)
RECURSIVE OrderByScore(_, _)
OrderByScore(sc, S) ==
    IF S = {} THEN {<<>>}
    ELSE UNION { { <<sc[i]>> \o rest : rest \in OrderByScore(sc, S \ {i}) } :
                 i \in {j \in S : \A k \in S : sc[j].score <= sc[k].score} }

(* "LIMIT 5" *)
TopLimit == 5
Limit(rows) ==
    IF Len(rows) <= TopLimit THEN rows ELSE SubSeq(rows, 1, TopLimit)

(* the loop of display_top_scores: each record, with the username of its
   player_id, is inserted at index 0 of username_scores *)
RECURSIVE InsertAll(_, _, _)
InsertAll(us, rows, username_scores) ==
    IF rows = <<>> THEN username_scores
    ELSE InsertAll(us, Tail(rows),
                   <<[username |-> us[Head(rows).player_id].username,
                      score |-> Head(rows).score]>> \o username_scores)

(* display_top_scores: the lists it can print *)
display_top_scores(us, sc) ==
    { InsertAll(us, Limit(rows), <<>>) :
        rows \in OrderByScore(sc, 1..Len(sc)) }

(* `display_top_scores()`, the last statement of the script *)
DisplayTopScores ==
    /\ pc = "saved"
    /\ shown' \in display_top_scores(users, scores)
    /\ pc' = "exit"
    /\ UNCHANGED <<rounds, turn, players, winner, calls, drawIters, rolled,
                   double_score, even_score, odd_score, credited,
                   users, scores>>
    /\ UNCHANGED loginVars
    /\ UNCHANGED dbVars

Next ==
    \/ PlayRound
    \/ ExitRounds
    \/ DrawEqual
    \/ DrawDiffer
    \/ DrawExit
    \/ GetWinner
    \/ SaveScore
    \/ DisplayTopScores

Spec == Init /\ [][Next]_vars

---------------------------------------------------------------------------
(* The GameState object on its own: play_round() called on a fresh GameState,
   each call recorded.  MaxCalls bounds the number of calls. *)
MaxCalls == 2

(* game_state.play_round() *)
GameCall ==
    /\ calls < MaxCalls
    /\ \E dice_val1 \in _roll_dice, dice_val2 \in _roll_dice :
          IF dice_val1 = dice_val2
          THEN \E extra_score \in _roll_dice :
                  TracedRound(dice_val1, dice_val2, extra_score)
          ELSE TracedRound(dice_val1, dice_val2, 0)
    /\ UNCHANGED <<pc, winner, drawIters>>
    /\ UNCHANGED storeVars
    /\ UNCHANGED loginVars
    /\ UNCHANGED dbVars

GameNext == GameCall

GameSpec == Init /\ [][GameNext]_vars

---------------------------------------------------------------------------
(* The end of a session on a database that earlier runs of the script have
   written to: each earlier run that reached save_score left the row of its
   winner.  The session here is one in which player one scored 16 in one
   round and every other round scored 0.  MaxRows bounds the rows of the
   earlier runs, StoredScores their final scores. *)
MaxRows == 5
StoredScores == {16, 32}

StoreInit ==
    /\ rounds = LastRound + 1
    /\ turn = 0
    /\ players = <<[username |-> "one", score |-> 16],
                   [username |-> "two", score |-> 0]>>
    /\ pc = "finished"
    /\ winner = 0
    /\ calls = 2 * LastRound
    /\ drawIters = 0
    /\ rolled = <<>>
    /\ double_score = 0
    /\ even_score = 0
    /\ odd_score = 0
    /\ credited = 1
    /\ users = <<[username |-> "one", password |-> Sha256["pw1"]],
                 [username |-> "two", password |-> Sha256["pw2"]]>>
    /\ scores = <<>>
    /\ shown = <<>>
    /\ signups = 2
    /\ attempts = 2
    /\ queries = 2
    /\ prompts = 2
    /\ entered = [username |-> "two", password |-> "pw2"]
    /\ outcome = "Success"
    /\ conn = "none"
    /\ pending = <<>>
    /\ exc = NoException
    /\ committed = FALSE
    /\ saving = [username |-> "", score |-> 0]
    /\ ops = 0

(* save_score(winner) of an earlier run: any registered user, any final
   score *)
StoreSave ==
    /\ pc = "finished"
    /\ Len(scores) < MaxRows
    /\ \E i \in 1..Len(users), final \in StoredScores :
          scores' = save_score(users, scores,
                               [username |-> users[i].username, score |-> final])
    /\ UNCHANGED <<rounds, turn, players, pc, winner, calls, drawIters, rolled,
                   double_score, even_score, odd_score, credited,
                   users, shown>>
    /\ UNCHANGED loginVars
    /\ UNCHANGED dbVars

StoreNext ==
    \/ StoreSave
    \/ SaveScore
    \/ DisplayTopScores

StoreSpec == StoreInit /\ [][StoreNext]_vars

---------------------------------------------------------------------------
(* The signup and login sections of the script, up to the construction of
   the GameState.  MaxSignups bounds the create_user() calls; an iteration of
   authenticate that logs no one in is followed only among the first
   MaxAttempts iterations. *)
MaxSignups == 2
MaxAttempts == 3
Usernames == {"one", "two", "zed"}

(* the passwords stored for a username: "SELECT password FROM users WHERE
   username=?" and fetchall() *)
RequiredPassword(us, username) ==
    [i \in 1..Cardinality(UserRowids(us, username)) |->
        us[CHOOSE r \in UserRowids(us, username) :
              Cardinality({q \in UserRowids(us, username) : q <= r}) = i
          ].password]

(* create_user: the users table after the call; the INSERT of a username
   that is taken raises IntegrityError, which the block catches *)
create_user(us, username, password) ==
    IF UserRowids(us, username) # {}
    THEN us
    ELSE Append(us, [username |-> username, password |-> Sha256[password]])

(* the check of authenticate that never finds the username *)
InNotAllowed_never(not_allowed, username) == FALSE

(* `len([True for u in not_allowed if u.username == username]) > 0` *)
InNotAllowed(not_allowed, username) ==
    Cardinality({i \in 1..Len(not_allowed) :
                    not_allowed[i].username = username}) > 0

(* the comparison of authenticate against the password of another row *)
PasswordMatches_any(us, username, user_password) ==
    \E i \in 1..Len(us) : Sha256[user_password] = us[i].password

(* `password_encrypted == required_password`, with required_password the
   first row fetched *)
PasswordMatches(us, username, user_password) ==
    Sha256[user_password] = RequiredPassword(us, username)[1]

(* One iteration of the loop of authenticate for the username typed and the
   password the user would type: the message printed, whether the users
   table was read, whether the password was asked for, and whether the loop
   ends with a Player *)
authenticate(us, not_allowed, username, user_password) ==
    IF InNotAllowed(not_allowed, username)
    THEN [message |-> "Username Added Already",
          queried |-> 0, asked |-> 0, success |-> FALSE]
    ELSE IF RequiredPassword(us, username) = <<>>
    THEN [message |-> "Invalid Username",
          queried |-> 1, asked |-> 0, success |-> FALSE]
    ELSE IF PasswordMatches(us, username, user_password)
    THEN [message |-> "Success",
          queried |-> 1, asked |-> 1, success |-> TRUE]
    ELSE [message |-> "Incorrect Password",
          queried |-> 1, asked |-> 1, success |-> FALSE]

(* The script before the signup section: create_tables() on a new database *)
LoginInit ==
    /\ rounds = 1
    /\ turn = 0
    /\ players = <<>>
    /\ pc = "signup"
    /\ winner = -1
    /\ calls = 0
    /\ drawIters = 0
    /\ rolled = <<>>
    /\ double_score = 0
    /\ even_score = 0
    /\ odd_score = 0
    /\ credited = -1
    /\ users = <<>>
    /\ scores = <<>>
    /\ shown = <<>>
    /\ signups = 0
    /\ attempts = 0
    /\ queries = 0
    /\ prompts = 0
    /\ entered = [username |-> "", password |-> ""]
    /\ outcome = ""
    /\ conn = "none"
    /\ pending = <<>>
    /\ exc = NoException
    /\ committed = FALSE
    /\ saving = [username |-> "", score |-> 0]
    /\ ops = 0

gameVars == <<rounds, turn, winner, calls, drawIters, rolled,
              double_score, even_score, odd_score, credited>>

(* choice "y" of the signup loop: create_user() *)
Signup ==
    /\ pc = "signup"
    /\ signups < MaxSignups
    /\ \E username \in Usernames, password \in Passwords :
          /\ users' = create_user(users, username, password)
          /\ outcome' = IF UserRowids(users, username) # {}
                        THEN "Username already used." ELSE ""
    /\ signups' = signups + 1
    /\ UNCHANGED <<players, pc, scores, shown,
                   attempts, queries, prompts, entered>>
    /\ UNCHANGED gameVars
    /\ UNCHANGED dbVars

(* choice "n" of the signup loop *)
SignupDone ==
    /\ pc = "signup"
    /\ pc' = "login1"
    /\ UNCHANGED <<players, users, scores, shown>>
    /\ UNCHANGED loginVars
    /\ UNCHANGED gameVars
    /\ UNCHANGED dbVars

(* One iteration of the loop of authenticate, in authenticate() for player
   one or in authenticate(not_allowed=[player_one]) for player two.  When
   player two is logged in the script constructs the GameState. *)
Authenticate ==
    /\ pc \in {"login1", "login2"}
    /\ \E username \in Usernames, user_password \in Passwords :
          LET not_allowed == IF pc = "login1" THEN <<>> ELSE players
              it == authenticate(users, not_allowed, username, user_password)
          IN  /\ it.success \/ attempts < MaxAttempts
              /\ attempts' = attempts + 1
              /\ queries' = queries + it.queried
              /\ prompts' = prompts + it.asked
              /\ entered' = [username |-> username,
                             password |-> IF it.asked = 1
                                          THEN user_password ELSE ""]
              /\ outcome' = it.message
              /\ players' = IF it.success
                            THEN Append(players, Player(username))
                            ELSE players
              /\ pc' = IF ~it.success THEN pc
                       ELSE IF pc = "login1" THEN "login2" ELSE "round_loop"
    /\ UNCHANGED <<users, scores, shown, signups>>
    /\ UNCHANGED gameVars
    /\ UNCHANGED dbVars

LoginNext ==
    \/ Signup
    \/ SignupDone
    \/ Authenticate

LoginSpec == LoginInit /\ [][LoginNext]_vars

---------------------------------------------------------------------------
(* save_score followed statement by statement inside its SQLManager, on the
   database of users "one" and "two", for players with any username of
   Usernames.  MaxOps bounds the number of with blocks. *)
MaxOps == 3

(* SQLManager.__enter__ at `with SQLManager() as cur` of save_score(player) *)
DbEnter ==
    /\ pc \in {"finished", "db_left"}
    /\ ops < MaxOps
    /\ \E username \in Usernames, final \in StoredScores :
          saving' = [username |-> username, score |-> final]
    /\ conn' = "open"
    /\ pending' = <<>>
    /\ exc' = NoException
    /\ committed' = FALSE
    /\ ops' = ops + 1
    /\ pc' = "db_select"
    /\ UNCHANGED <<players, users, scores, shown>>
    /\ UNCHANGED loginVars
    /\ UNCHANGED gameVars

(* "SELECT rowid FROM users WHERE username=?" and fetchall()[0][0], which
   raises IndexError when there is no such user *)
DbSelect ==
    /\ pc = "db_select"
    /\ IF UserRowids(users, saving.username) = {}
       THEN exc' = Raised("IndexError") /\ pc' = "db_exit"
       ELSE exc' = exc /\ pc' = "db_insert"
    /\ UNCHANGED <<players, users, scores, shown,
                   conn, pending, committed, saving, ops>>
    /\ UNCHANGED loginVars
    /\ UNCHANGED gameVars

(* "INSERT INTO scores VALUES (?, ?)", the last statement of the block *)
DbInsert ==
    /\ pc = "db_insert"
    /\ pending' = Append(pending,
                         [player_id |-> CHOOSE i \in UserRowids(users, saving.username) :
                                           \A j \in UserRowids(users, saving.username) : i <= j,
                          score |-> saving.score])
    /\ pc' = "db_written"
    /\ UNCHANGED <<players, users, scores, shown,
                   conn, exc, committed, saving, ops>>
    /\ UNCHANGED loginVars
    /\ UNCHANGED gameVars

(* the block ends after its last statement *)
DbBlockEnd ==
    /\ pc = "db_written"
    /\ pc' = "db_exit"
    /\ UNCHANGED <<players, users, scores, shown>>
    /\ UNCHANGED <<conn, pending, exc, committed, saving, ops>>
    /\ UNCHANGED loginVars
    /\ UNCHANGED gameVars

(* KeyboardInterrupt raised in the block, before or after the INSERT *)
DbInterrupt ==
    /\ pc \in {"db_select", "db_insert", "db_written"}
    /\ exc' = Raised("KeyboardInterrupt")
    /\ pc' = "db_exit"
    /\ UNCHANGED <<players, users, scores, shown,
                   conn, pending, committed, saving, ops>>
    /\ UNCHANGED loginVars
    /\ UNCHANGED gameVars

(* SQLManager.__exit__(type, value, traceback) *)
DbExit ==
    /\ pc = "db_exit"
    /\ committed' = CommitsOnExit(exc)
    /\ scores' = TableAfterExit(scores, pending, exc)
    /\ conn' = "closed"
    /\ pc' = "db_left"
    /\ UNCHANGED <<players, users, shown, pending, exc, saving, ops>>
    /\ UNCHANGED loginVars
    /\ UNCHANGED gameVars

DbNext ==
    \/ DbEnter
    \/ DbSelect
    \/ DbInsert
    \/ DbBlockEnd
    \/ DbInterrupt
    \/ DbExit

DbSpec == StoreInit /\ [][DbNext]_vars

(* The session under the scheduling of a single-threaded script: every step
   that can be taken is taken, and the draw rolls differ infinitely often
   whenever they are rolled infinitely often. *)
LiveSpec ==
    /\ Spec
    /\ WF_vars(PlayRound)
    /\ WF_vars(ExitRounds)
    /\ WF_vars(DrawExit)
    /\ WF_vars(GetWinner)
    /\ WF_vars(SaveScore)
    /\ WF_vars(DisplayTopScores)
    /\ SF_vars(DrawDiffer)

---------------------------------------------------------------------------
(* Properties *)

(* both players have the same score *)
Tied == players[1].score = players[2].score

(* the subtotal of the scoring rules for the dice of the last call *)
Subtotal ==
    IF rolled[1] = rolled[2]
    THEN rolled[1] + rolled[2] + rolled[3]
    ELSE rolled[1] + rolled[2]

(* the score the rules give for a subtotal s *)
RuleScore(s) ==
    IF s % 2 = 0 THEN s + 10 ELSE IF s - 5 > 0 THEN s - 5 ELSE 0

(* C1: for all dice (r1, r2) and extra roll e, _calculate_scores returns
   f(s) with s = r1 + r2 + e on a double and r1 + r2 otherwise, f(s) = s + 10
   for even s and max(0, s - 5) for odd s; (3,4) gives 2, (2,4) gives 16 and
   (3,3) with extra roll 5 gives 6. *)
C1_ScoreFormula ==
    calls > 0 =>
        /\ odd_score = RuleScore(Subtotal)
        /\ players[credited + 1].score >= odd_score
        /\ (rolled = <<3, 4>> => odd_score = 2)
        /\ (rolled = <<2, 4>> => odd_score = 16)
        /\ (rolled = <<3, 3, 5>> => odd_score = 6)

C1_Witness ==
    /\ calls = 1
    /\ rolled = <<3, 3, 5>>
    /\ players[1].score = 6

(* C2: the score _calculate_scores returns is a non-negative integer, and an
   odd subtotal of 5 or less gives 0. *)
C2_ScoreNonNegative ==
    calls > 0 =>
        /\ odd_score \in Nat
        /\ (double_score % 2 = 1 /\ double_score <= 5 => odd_score = 0)

C2_Witness ==
    /\ calls > 0
    /\ double_score = 3
    /\ odd_score = 0

(* C3: after n play_round() calls on a fresh GameState turn = n mod 2 and
   rounds = 1 + n div 2; turn flips on every call, and rounds grows, by
   exactly 1, on exactly the calls in which turn goes from 1 back to 0. *)
C3_TurnAndRounds ==
    /\ [](turn = calls % 2 /\ rounds = 1 + (calls \div 2))
    /\ [][calls' = calls + 1 =>
            /\ turn' = 1 - turn
            /\ rounds' = (IF turn = 1 /\ turn' = 0 THEN rounds + 1 ELSE rounds)
         ]_vars
    /\ [][calls' = calls => rounds' = rounds /\ turn' = turn]_vars

C3_Witness ==
    /\ calls = 3
    /\ turn = 1
    /\ rounds = 2

(* C4: when the session is Finished the two scores differ and the winner is
   the player with the strictly greater score. *)
C4_StrictWinner ==
    pc = "finished" =>
        /\ ~Tied
        /\ winner \in {0, 1}
        /\ players[winner + 1].score > players[2 - winner].score

C4_Witness ==
    /\ pc = "finished"
    /\ drawIters > 0
    /\ winner = 0
    /\ players[1].score > players[2].score

(* C5: play_round() is called only while rounds <= 5; a draw roll happens
   only after rounds has exceeded 5 and only if the scores were equal then;
   if the scores differ when rounds first exceeds 5 the session goes to its
   end with no draw roll; no play_round() call follows a draw roll; turn is
   0 or 1 and rounds is in 1..6 throughout. *)
C5_PhaseOrder ==
    /\ [](turn \in {0, 1} /\ rounds \in 1..6)
    /\ [](drawIters > 0 => rounds > 5)
    /\ [][calls' # calls => pc = "round_loop" /\ rounds <= 5]_vars
    /\ [][pc = "round_loop" /\ pc' # "round_loop" =>
            /\ rounds > 5
            /\ drawIters = 0
            /\ pc' = (IF Tied THEN "play_draw" ELSE "get_winner")
         ]_vars
    /\ [][drawIters' # drawIters => pc = "play_draw" /\ calls' = calls]_vars
    /\ [][(pc = "get_winner" \/ pc = "finished") =>
            /\ drawIters' = drawIters
            /\ calls' = calls
         ]_vars
    /\ [][drawIters > 0 => calls' = calls]_vars

C5_Witness ==
    /\ pc = "finished"
    /\ drawIters = 0
    /\ calls = 10
    /\ rounds = 6

(* C6: each iteration of play_draw draws one roll per player, and the loop
   ends after an iteration exactly when the two rolls of that iteration
   differ: it repeats while the rolls are equal and ends at the first
   iteration whose rolls differ. *)
C6_DrawLoop ==
    /\ [](drawIters > 0 => Len(rolled) = 2)
    /\ [](pc = "play_draw" /\ drawIters > 0 =>
            (Tied <=> rolled[1] = rolled[2]))
    /\ [][pc = "play_draw" /\ pc' # "play_draw" =>
            /\ drawIters > 0
            /\ rolled[1] # rolled[2]
            /\ pc' = "get_winner"
         ]_vars
    /\ [][drawIters > 0 /\ drawIters' # drawIters =>
            (rolled[1] = rolled[2])
         ]_vars
    /\ [][drawIters > 0 /\ pc = "play_draw" /\ rolled[1] # rolled[2] =>
            (drawIters' = drawIters)
         ]_vars

C6_Witness ==
    /\ pc = "get_winner"
    /\ drawIters = 2
    /\ rolled[1] # rolled[2]

(* C7: every session eventually reaches Finished, given that the draw rolls
   of the two players eventually differ. *)
C7_Terminates == <>(pc = "finished")

C7_Witness ==
    /\ pc = "finished"
    /\ drawIters = MaxEqualDraws + 1
    /\ calls = 10

(* C8: every value _roll_dice returns (the rolls of a round, the extra roll
   of a double, the draw rolls) is an integer from 1 to 6. *)
C8_RollsOneToSix ==
    \A i \in 1..Len(rolled) : rolled[i] \in 1..6

(* C9: every _calculate_scores call applies exactly one of the two
   adjustments, the +10 of the even stage or the -5 floored at 0 of the odd
   stage. *)
C9_OneAdjustment ==
    calls > 0 =>
        \/ /\ even_score = double_score + 10
           /\ odd_score = even_score
        \/ /\ even_score = double_score
           /\ odd_score = (IF even_score - 5 > 0 THEN even_score - 5 ELSE 0)
           /\ odd_score # even_score

C9_Witness ==
    /\ calls > 0
    /\ double_score = 6
    /\ even_score = 16
    /\ odd_score = 16

(* C10: play_round adds the round score to the player whose turn it was and
   changes nothing else of the players: the other score, the usernames and
   the order stay; the dice are rolled twice, and a third time exactly when
   the two rolls are equal. *)
C10_RoundFrame ==
    [][calls' = calls + 1 =>
        /\ players'[turn + 1].score = players[turn + 1].score + odd_score'
        /\ players'[2 - turn] = players[2 - turn]
        /\ players'[turn + 1].username = players[turn + 1].username
        /\ Len(players') = 2
        /\ Len(rolled') = (IF rolled'[1] = rolled'[2] THEN 3 ELSE 2)
        /\ \A i \in 1..Len(rolled') : rolled'[i] \in _roll_dice
      ]_vars

C10_Witness ==
    /\ calls = 2
    /\ credited = 1
    /\ Len(rolled) = 3
    /\ players[2].score = odd_score
    /\ players[2].score > 0

(* C11: an iteration of play_draw adds each player's own roll, as rolled, to
   that player's score, and the draw rolls leave rounds and turn alone. *)
C11_DrawFrame ==
    [][drawIters' = drawIters + 1 =>
        /\ Len(rolled') = 2
        /\ players'[1].score = players[1].score + rolled'[1]
        /\ players'[2].score = players[2].score + rolled'[2]
        /\ players'[1].username = players[1].username
        /\ players'[2].username = players[2].username
        /\ rounds' = rounds
        /\ turn' = turn
      ]_vars

C11_Witness ==
    /\ drawIters = 1
    /\ rolled = <<2, 5>>
    /\ players[2].score = players[1].score + 3

(* C17: the round loop makes exactly 10 play_round() calls and stops the
   first time rounds exceeds 5, with rounds = 6 and turn = 0; call k is made
   by player (k - 1) mod 2 in round (k + 1) div 2, so each player takes 5
   turns and player 0 goes first in every round. *)
C17_TenCalls ==
    /\ [][calls' = calls + 1 =>
            /\ calls < 10
            /\ credited' = calls % 2
            /\ rounds = 1 + (calls \div 2)
         ]_vars
    /\ [](rounds > 5 => calls = 10 /\ rounds = 6 /\ turn = 0)
    /\ [](pc # "round_loop" => calls = 10 /\ rounds = 6 /\ turn = 0)

C17_Witness ==
    /\ pc = "get_winner"
    /\ calls = 10
    /\ credited = 1

(* C18: every score _calculate_scores returns is even, so both scores are
   even until the first draw roll; a score becomes odd only in a draw roll. *)
C18_EvenScores ==
    /\ [](drawIters = 0 =>
            players[1].score % 2 = 0 /\ players[2].score % 2 = 0)
    /\ [][calls' = calls + 1 =>
            (players'[turn + 1].score - players[turn + 1].score) % 2 = 0
         ]_vars
    /\ [][(\E i \in 1..2 : players'[i].score % 2 # players[i].score % 2) =>
            drawIters' = drawIters + 1
         ]_vars

C18_Witness ==
    /\ drawIters = 1
    /\ players[1].score % 2 = 1
    /\ players[2].score % 2 = 0

(* C19: both scores are non-negative integers in every state, no step
   decreases a score, the scores are 0 before the first round, and only
   play_round and the draw rolls change them. *)
C19_ScoresGrow ==
    /\ [](\A i \in 1..2 : players[i].score \in Nat)
    /\ [](calls = 0 => players[1].score = 0 /\ players[2].score = 0)
    /\ [][\A i \in 1..2 : players'[i].score >= players[i].score]_vars
    /\ [][players' # players =>
            calls' = calls + 1 \/ drawIters' = drawIters + 1
         ]_vars

C19_Witness ==
    /\ calls = 2
    /\ players[1].score = 0
    /\ players[2].score > 0

(* the scores of the given rows, highest first *)
RECURSIVE Descending(_, _)
Descending(sc, S) ==
    IF S = {} THEN <<>>
    ELSE LET i == CHOOSE j \in S : \A k \in S : sc[j].score >= sc[k].score
         IN  <<sc[i].score>> \o Descending(sc, S \ {i})

(* how many rows of the scores table belong to username with this score *)
RowsOf(username, score) ==
    Cardinality({i \in 1..Len(scores) :
                    /\ users[scores[i].player_id].username = username
                    /\ scores[i].score = score})

(* how many lines of the printed list are (username, score) *)
LinesOf(username, score) ==
    Cardinality({i \in 1..Len(shown) :
                    shown[i] = [username |-> username, score |-> score]})

(* C12: display_top_scores shows the min(5, N) highest scores of the table,
   highest first, each with the username of the user it was saved for. *)
C12_TopFive ==
    pc = "exit" =>
        /\ Len(shown) = (IF Len(scores) < 5 THEN Len(scores) ELSE 5)
        /\ \A i \in 1..Len(shown) :
              /\ shown[i].score = Descending(scores, 1..Len(scores))[i]
              /\ LinesOf(shown[i].username, shown[i].score)
                    <= RowsOf(shown[i].username, shown[i].score)

(* the scores table holds a row with the final score of player i (1 or 2),
   keyed to the user record of that player *)
Persisted(i) ==
    \E r \in 1..Len(scores) :
        /\ users[scores[r].player_id].username = players[i].username
        /\ scores[r].score = players[i].score

(* C13 as stated: when the session completes, the final score of each of the
   two players is in the scores table, keyed to that player's user record. *)
C13_BothSaved ==
    (pc = "saved" \/ pc = "exit") => Persisted(1) /\ Persisted(2)

(* C13 as amended: when the session completes, the final score of the winner,
   and of the winner only, has been added to the scores table, keyed to the
   winner's user record; before save_score nothing is added. *)
C13_WinnerSaved ==
    /\ pc # "crashed"
    /\ (pc = "saved" \/ pc = "exit") =>
          /\ scores = <<[player_id |-> winner + 1,
                         score |-> players[winner + 1].score]>>
          /\ users[winner + 1].username = players[winner + 1].username
          /\ Persisted(winner + 1)
          /\ ~Persisted(2 - winner)
    /\ (pc # "saved" /\ pc # "exit") => scores = <<>>

C13_Witness ==
    /\ pc = "exit"
    /\ winner = 1
    /\ scores = <<[player_id |-> 2, score |-> players[2].score]>>
    /\ players[1].score > 0

(* the users table has a row for username whose password is the digest of
   the password typed *)
Registered(username, password) ==
    /\ password \in Passwords
    /\ \E i \in 1..Len(users) :
          /\ users[i].username = username
          /\ users[i].password = Sha256[password]

(* C14: in authenticate a username of a player in not_allowed is rejected
   and the prompt repeats, with no read of the users table and no password
   prompt; so the second login never returns player one's username and the
   two players of a GameState have different usernames. *)
C14_NotAllowed ==
    /\ [][(/\ attempts' = attempts + 1
           /\ pc = "login2"
           /\ entered'.username = players[1].username) =>
            /\ outcome' = "Username Added Already"
            /\ queries' = queries
            /\ prompts' = prompts
            /\ entered'.password = ""
            /\ players' = players
            /\ pc' = "login2"
         ]_vars
    /\ [](Len(players) = 2 => players[1].username # players[2].username)
    /\ [](pc = "round_loop" => Len(players) = 2)

C14_Witness ==
    /\ pc = "round_loop"
    /\ attempts = 3
    /\ queries = 2
    /\ prompts = 2
    /\ players[1].username = "two"
    /\ players[2].username = "one"

(* C16: authenticate returns a Player for u only if u is in the users table
   and the digest of the password typed in that iteration is the stored one;
   an unknown username or a wrong password gives no Player and leads back to
   the username prompt; the Player returned has score 0. *)
C16_Authenticated ==
    /\ [][Len(players') # Len(players) =>
            /\ players' = Append(players,
                                 [username |-> entered'.username, score |-> 0])
            /\ Registered(entered'.username, entered'.password)
            /\ outcome' = "Success"
         ]_vars
    /\ [][(/\ attempts' = attempts + 1
           /\ ~Registered(entered'.username, entered'.password)) =>
            /\ players' = players
            /\ pc' = pc
            /\ outcome' # "Success"
         ]_vars
    /\ [](\A i \in 1..Len(players) : players[i].score = 0)

C16_Witness ==
    /\ pc = "round_loop"
    /\ attempts = 3
    /\ prompts = 3
    /\ outcome = "Success"

(* the script is inside a with block of SQLManager *)
InBlock == pc \in {"db_select", "db_insert", "db_written", "db_exit"}

(* C15: __exit__ commits exactly when no exception leaves the block, and
   closes the connection on every way out; after an exception has left the
   block none of the rows the block wrote are in the table. *)
C15_CommitOrClose ==
    /\ [][pc = "db_exit" /\ pc' # "db_exit" =>
            /\ committed' = (exc = NoException)
            /\ conn' = "closed"
            /\ scores' = (IF exc = NoException
                          THEN scores \o pending ELSE scores)
         ]_vars
    /\ [][scores' # scores => pc = "db_exit" /\ exc = NoException]_vars
    /\ [](conn = "open" <=> InBlock)
    /\ [](pc = "db_left" => conn = "closed")
    /\ [](pc = "db_left" /\ exc # NoException => ~committed)

C15_Witness ==
    /\ pc = "db_left"
    /\ exc.type = "KeyboardInterrupt"
    /\ pending # <<>>
    /\ scores = <<>>
    /\ conn = "closed"

====
